---- MODULE Spec2Model ----
(***************************************************************************)
(* Deck editor of the card list page: the click handlers of the card       *)
(* tiles, of the rows' increase and decrease controls and of the           *)
(* remove-hero control, over the deck column of the DOM, the hero field    *)
(* and the module-level change-set decklistChanges.                        *)
(***************************************************************************)
EXTENDS Integers, Sequences, FiniteSets, TLC

(* ---------------------------------------------------------------------- *)
(* Bounds of the model                                                     *)
(* ---------------------------------------------------------------------- *)

\* Largest quantity a row or a change-set entry is driven to.
MaxQty == 3

\* Largest quantity of a row rendered by the server at page load.
MaxLoadedQty == 2

(* ---------------------------------------------------------------------- *)
(* The page: card tiles (class "card-display") and their data attributes   *)
(* ---------------------------------------------------------------------- *)

cardDisplayElements ==
    { [cardReference |-> "c1", cardName |-> "Name c1", cardType |-> "character"],
      [cardReference |-> "c2", cardName |-> "Name c2", cardType |-> "spell"],
      [cardReference |-> "h1", cardName |-> "Name h1", cardType |-> "hero"],
      [cardReference |-> "h2", cardName |-> "Name h2", cardType |-> "hero"] }

HeroTiles   == { t \in cardDisplayElements : t.cardType = "hero" }
NormalTiles == cardDisplayElements \ HeroTiles
NormalRefs  == { t.cardReference : t \in NormalTiles }
HeroRefs    == { t.cardReference : t \in HeroTiles }

TileOf(ref) == CHOOSE t \in cardDisplayElements : t.cardReference = ref

(* ---------------------------------------------------------------------- *)
(* Text of a quantity element: innerText is a string of decimal digits,    *)
(* read with Number() and written by assigning a number.                   *)
(* ---------------------------------------------------------------------- *)

Digits == <<"0", "1", "2", "3", "4", "5", "6", "7", "8", "9">>

DigitValue(ch) == (CHOOSE k \in 1..10 : Digits[k] = ch) - 1

\* The string a non-negative number is converted to when assigned to innerText.
RECURSIVE String(_)
String(n) ==
    IF n < 10 THEN << Digits[n + 1] >>
    ELSE Append(String(n \div 10), Digits[(n % 10) + 1])

\* Number(text): the empty string converts to 0.
RECURSIVE Number(_)
Number(text) ==
    IF text = << >> THEN 0
    ELSE 10 * Number(SubSeq(text, 1, Len(text) - 1)) + DigitValue(text[Len(text)])

(* ---------------------------------------------------------------------- *)
(* Deck column: the children of #edit-deck-column, in document order       *)
(* ---------------------------------------------------------------------- *)

RowId(cardReference) == "row-" \o cardReference

\* A row element: its id, the text of its card-quantity and card-name
\* elements, its hidden flag, whether its remove-card-btn / add-card-btn have
\* the click listener, and whether the node was made by cloneNode.
Row(id, quantity, name, hidden, removeListener, addListener, cloned) ==
    [id |-> id, quantity |-> quantity, name |-> name, hidden |-> hidden,
     removeListener |-> removeListener, addListener |-> addListener,
     cloned |-> cloned]

\* The hidden template row the server renders as the last child.
TemplateRow == Row("", << >>, "", TRUE, TRUE, TRUE, FALSE)

\* A row the server renders for a card of the deck.
LoadedRow(ref, qty) ==
    Row(RowId(ref), String(qty), TileOf(ref).cardName, FALSE, TRUE, TRUE, FALSE)

\* document.getElementById over the deck column: the first element in
\* document order with the id, 0 for null.
getElementById(column, id) ==
    IF \E i \in 1..Len(column) : column[i].id = id
    THEN CHOOSE i \in 1..Len(column) :
            /\ column[i].id = id
            /\ \A j \in 1..(i - 1) : column[j].id # id
    ELSE 0

RemoveAt(column, i) ==
    SubSeq(column, 1, i - 1) \o SubSeq(column, i + 1, Len(column))

(* ---------------------------------------------------------------------- *)
(* decklistChanges: an object, here a function on its own keys             *)
(* ---------------------------------------------------------------------- *)

HasKey(changes, key) == key \in DOMAIN changes

SetKey(changes, key, value) ==
    [k \in (DOMAIN changes) \cup {key} |-> IF k = key THEN value ELSE changes[k]]

DeleteKey(changes, key) ==
    [k \in (DOMAIN changes) \ {key} |-> changes[k]]

EmptyObject == [k \in {} |-> 0]

(* ---------------------------------------------------------------------- *)
(* State                                                                   *)
(* ---------------------------------------------------------------------- *)

VARIABLES
    editDeckColumn,     \* sequence of rows: children of #edit-deck-column
    heroElement,        \* #hero-name: [value, cardReference]
    removeHeroDisabled, \* #remove-hero .disabled
    decklistChanges,    \* the change-set
    lastClick,          \* the click just handled: [control, target, row]
    selects,            \* per normal reference: select clicks counted while onlySelects
    onlySelects,        \* per normal reference: since its row was last absent (at
                        \* load or by removal) only its tile has been clicked
    heroAtLoad          \* the reference #hero-name was rendered with, "" for none

\* The deck statistics script (faction pie chart).
VARIABLES
    factionDistribution, \* members of the JSON object in #faction-distribution
    deckStats,           \* the script's deckStats
    labels,              \* the script's labels
    data,                \* the script's data
    deckPieChart,        \* what the Chart is constructed with
    statsPc              \* the statement of the script that runs next

\* The card search: the URL of the page and the navigation just made.
VARIABLES
    locationSearch,      \* window.location.search, a string of characters
    navigation           \* the handler that navigated here and its inputs

searchVars == << locationSearch, navigation >>

deckEditorVars == << editDeckColumn, heroElement, removeHeroDisabled, decklistChanges,
                     lastClick, selects, onlySelects, heroAtLoad >>

statsVars == << factionDistribution, deckStats, labels, data, deckPieChart, statsPc >>

vars == << deckEditorVars, statsVars, searchVars >>

\* What no click handler of the deck editor writes.
notOfDeckEditor == << heroAtLoad, statsVars, searchVars >>

(* ---------------------------------------------------------------------- *)
(* Page load                                                               *)
(* ---------------------------------------------------------------------- *)

\* Document order of the rows the server renders.
LoadOrder == << "c1", "c2" >>

\* The deck column at load: one row per card of the deck (loaded[ref] > 0),
\* then the hidden template row as the last child.
LoadedColumn(loaded) ==
    LET F[i \in 0..Len(LoadOrder)] ==
            IF i = 0 THEN << >>
            ELSE IF loaded[LoadOrder[i]] > 0
                 THEN Append(F[i - 1], LoadedRow(LoadOrder[i], loaded[LoadOrder[i]]))
                 ELSE F[i - 1]
    IN  Append(F[Len(LoadOrder)], TemplateRow)

EmptyHero == [value |-> "", cardReference |-> ""]

LoadedHero(tile) == [value |-> tile.cardName, cardReference |-> tile.cardReference]

\* The statistics script is not on the page.
StatsAbsent ==
    /\ factionDistribution = << >>
    /\ deckStats = << >>
    /\ labels = << >>
    /\ data = << >>
    /\ deckPieChart = << >>
    /\ statsPc = "absent"

\* No navigation is made.
NoInputs == [kind |-> "load", value |-> << >>, checked |-> {}, query |-> << >>,
             selectedIndex |-> 0]

SearchIdle ==
    /\ locationSearch = << >>
    /\ navigation = NoInputs

Init ==
    /\ StatsAbsent
    /\ SearchIdle
    /\ \E loaded \in [NormalRefs -> 0..MaxLoadedQty] :
          /\ editDeckColumn = LoadedColumn(loaded)
          /\ onlySelects = [r \in NormalRefs |-> loaded[r] = 0]
    /\ heroElement \in {EmptyHero} \cup { LoadedHero(t) : t \in HeroTiles }
    /\ removeHeroDisabled = (heroElement = EmptyHero)
    /\ heroAtLoad = heroElement.cardReference
    /\ decklistChanges = EmptyObject
    /\ lastClick = [control |-> "load", target |-> "", row |-> 0]
    /\ selects = [r \in NormalRefs |-> 0]

(* ---------------------------------------------------------------------- *)
(* Row controls                                                            *)
(* ---------------------------------------------------------------------- *)

\* Variant: at quantity 0 the row is left in the column instead of removed.
decreaseCardQuantity_keepsRow(column, i) ==
    LET quantity == Number(column[i].quantity) - 1
    IN  IF quantity > 0
        THEN [column EXCEPT ![i].quantity = String(quantity)]
        ELSE column

\* Variant: the test is quantity >= 0, so a row at 1 is written 0.
decreaseCardQuantity_showsZero(column, i) ==
    LET quantity == Number(column[i].quantity) - 1
    IN  IF quantity >= 0
        THEN [column EXCEPT ![i].quantity = String(quantity)]
        ELSE RemoveAt(column, i)

\* decreaseCardQuantity on the row at position i of the column.
decreaseCardQuantity(column, i) ==
    LET quantity == Number(column[i].quantity) - 1
    IN  IF quantity > 0
        THEN [column EXCEPT ![i].quantity = String(quantity)]
        ELSE RemoveAt(column, i)

\* Variant: the quantity element written is the first of the document, not
\* the sibling of the control.
increaseCardQuantity_firstRow(column, i) ==
    [column EXCEPT ![1].quantity = String(Number(column[i].quantity) + 1)]

\* increaseCardQuantity on the row at position i of the column.
increaseCardQuantity(column, i) ==
    [column EXCEPT ![i].quantity = String(Number(column[i].quantity) + 1)]

\* A row control the user can click: the row is shown and the control has
\* its listener.
Clickable(column, i, control) ==
    /\ i \in 1..Len(column)
    /\ ~column[i].hidden
    /\ IF control = "remove-card-btn" THEN column[i].removeListener
                                      ELSE column[i].addListener

DecreaseClick(i) ==
    /\ Clickable(editDeckColumn, i, "remove-card-btn")
    /\ editDeckColumn' = decreaseCardQuantity(editDeckColumn, i)
    /\ lastClick' = [control |-> "remove-card-btn", target |-> editDeckColumn[i].id,
                     row |-> i]
    /\ onlySelects' = [r \in NormalRefs |->
            IF RowId(r) = editDeckColumn[i].id
            THEN getElementById(editDeckColumn', RowId(r)) = 0
            ELSE onlySelects[r]]
    /\ selects' = [r \in NormalRefs |->
            IF RowId(r) = editDeckColumn[i].id THEN 0 ELSE selects[r]]
    /\ UNCHANGED << heroElement, removeHeroDisabled, decklistChanges >>
    /\ UNCHANGED notOfDeckEditor

IncreaseClick(i) ==
    /\ Clickable(editDeckColumn, i, "add-card-btn")
    /\ Number(editDeckColumn[i].quantity) < MaxQty
    /\ editDeckColumn' = increaseCardQuantity(editDeckColumn, i)
    /\ lastClick' = [control |-> "add-card-btn", target |-> editDeckColumn[i].id,
                     row |-> i]
    /\ onlySelects' = [r \in NormalRefs |->
            onlySelects[r] /\ RowId(r) # editDeckColumn[i].id]
    /\ selects' = [r \in NormalRefs |->
            IF RowId(r) = editDeckColumn[i].id THEN 0 ELSE selects[r]]
    /\ UNCHANGED << heroElement, removeHeroDisabled, decklistChanges >>
    /\ UNCHANGED notOfDeckEditor

(* ---------------------------------------------------------------------- *)
(* Remove-hero control                                                     *)
(* ---------------------------------------------------------------------- *)

\* Variant: the entry is set to 0 whether or not the key was there.
removeHeroChanges_alwaysZero(changes, heroReference) ==
    SetKey(changes, heroReference, 0)

\* The change-set after a remove-hero click with hero reference heroReference.
removeHeroChanges(changes, heroReference) ==
    IF HasKey(changes, heroReference)
    THEN DeleteKey(changes, heroReference)
    ELSE SetKey(changes, heroReference, 0)

\* Variant: the name is cleared but the stored reference is kept.
removedHero_keepsReference(hero) == [hero EXCEPT !.value = ""]

\* The hero field after a remove-hero click.
removedHero(hero) == [hero EXCEPT !.value = "", !.cardReference = ""]

\* Variant: the control is not disabled.
removeHeroDisabledAfter_unchanged(disabled) == disabled

\* The disabled flag of the remove control after its click.
removeHeroDisabledAfter(disabled) == TRUE

RemoveHeroClick ==
    /\ ~removeHeroDisabled
    /\ heroElement' = removedHero(heroElement)
    /\ removeHeroDisabled' = removeHeroDisabledAfter(removeHeroDisabled)
    /\ decklistChanges' = removeHeroChanges(decklistChanges, heroElement.cardReference)
    /\ lastClick' = [control |-> "remove-hero", target |-> heroElement.cardReference,
                     row |-> 0]
    /\ UNCHANGED << editDeckColumn, selects, onlySelects >>
    /\ UNCHANGED notOfDeckEditor

(* ---------------------------------------------------------------------- *)
(* Card tiles                                                              *)
(* ---------------------------------------------------------------------- *)

\* Variant: the type is compared with the capitalised name the filters use.
isHeroType_capitalised(cardType) == cardType = "Hero"

\* The tile takes the hero branch.
isHeroType(cardType) == cardType = "hero"

\* Variant: the hero branch does not test the hero name field.
heroSlotFree_always(hero) == TRUE

\* The hero branch takes effect only when the hero name field is empty.
heroSlotFree(hero) == hero.value = ""

\* The quantity the existing-row branch starts from: the change-set entry
\* when it is truthy, else the displayed text.
existingQuantity(changes, cardReference, cardElement) ==
    IF HasKey(changes, cardReference) /\ changes[cardReference] # 0
    THEN changes[cardReference]
    ELSE Number(cardElement.quantity)

\* The node a new row is cloned from: the last element child of the column.
lastElementChild(column) == column[Len(column)]

\* Variant: the clone is taken to carry the listeners of its source, and none
\* is added.
newCardElement_noListeners(column, cardReference, cardName) ==
    [lastElementChild(column) EXCEPT
        !.id = RowId(cardReference),
        !.quantity = String(1),
        !.name = cardName,
        !.removeListener = FALSE,
        !.addListener = FALSE,
        !.hidden = FALSE,
        !.cloned = TRUE]

\* The row made for a new card: a deep clone of the column's last child
\* (listeners are not cloned) with id, quantity, name and hidden overwritten
\* and both listeners added.
newCardElement(column, cardReference, cardName) ==
    [lastElementChild(column) EXCEPT
        !.id = RowId(cardReference),
        !.quantity = String(1),
        !.name = cardName,
        !.removeListener = TRUE,
        !.addListener = TRUE,
        !.hidden = FALSE,
        !.cloned = TRUE]

\* Variant: the existing-row branch stores the quantity without adding 1.
selectedChanges_noIncrement(column, changes, cardReference) ==
    LET cardElement == getElementById(column, RowId(cardReference))
    IN  IF cardElement # 0
        THEN SetKey(changes, cardReference,
                    existingQuantity(changes, cardReference, column[cardElement]))
        ELSE SetKey(changes, cardReference, 1)

\* The change-set after a click on the tile of a normal card.
selectedChanges(column, changes, cardReference) ==
    LET cardElement == getElementById(column, RowId(cardReference))
    IN  IF cardElement # 0
        THEN SetKey(changes, cardReference,
                    existingQuantity(changes, cardReference, column[cardElement]) + 1)
        ELSE SetKey(changes, cardReference, 1)

\* Variant: the row is looked up by the bare reference, without "row-".
selectedColumn_wrongId(column, changes, cardReference, cardName) ==
    LET cardElement == getElementById(column, cardReference)
    IN  IF cardElement # 0
        THEN [column EXCEPT ![cardElement].quantity =
                String(selectedChanges(column, changes, cardReference)[cardReference])]
        ELSE Append(column, newCardElement(column, cardReference, cardName))

\* The column after a click on the tile of a normal card: an existing row
\* shows the new change-set entry, else a new row is appended.
selectedColumn(column, changes, cardReference, cardName) ==
    LET cardElement == getElementById(column, RowId(cardReference))
    IN  IF cardElement # 0
        THEN [column EXCEPT ![cardElement].quantity =
                String(selectedChanges(column, changes, cardReference)[cardReference])]
        ELSE Append(column, newCardElement(column, cardReference, cardName))

\* Variant: the name is set but the reference is not stored.
selectedHero_nameOnly(hero, cardReference, cardName) ==
    [hero EXCEPT !.value = cardName]

\* The hero field after a click on a hero tile with the slot free.
selectedHero(hero, cardReference, cardName) ==
    [hero EXCEPT !.value = cardName, !.cardReference = cardReference]

CardDisplayClick(tile) ==
    LET cardReference == tile.cardReference
        cardName == tile.cardName
        cardType == tile.cardType
    IN  /\ lastClick' = [control |-> "card-display", target |-> cardReference, row |-> 0]
        /\ UNCHANGED notOfDeckEditor
        /\ IF isHeroType(cardType)
           THEN /\ IF heroSlotFree(heroElement)
                   THEN /\ heroElement' = selectedHero(heroElement, cardReference, cardName)
                        /\ removeHeroDisabled' = FALSE
                        /\ decklistChanges' = SetKey(decklistChanges, cardReference, 1)
                   ELSE UNCHANGED << heroElement, removeHeroDisabled, decklistChanges >>
                /\ UNCHANGED << editDeckColumn, selects, onlySelects >>
           ELSE /\ selectedChanges(editDeckColumn, decklistChanges, cardReference) [cardReference]
                      <= MaxQty
                /\ editDeckColumn' =
                      selectedColumn(editDeckColumn, decklistChanges, cardReference, cardName)
                /\ decklistChanges' =
                      selectedChanges(editDeckColumn, decklistChanges, cardReference)
                /\ selects' = [r \in NormalRefs |->
                                  IF r # cardReference THEN selects[r]
                                  ELSE IF onlySelects[r] THEN selects[r] + 1 ELSE 0]
                /\ UNCHANGED << heroElement, removeHeroDisabled, onlySelects >>

(* ---------------------------------------------------------------------- *)
(* Specification                                                           *)
(* ---------------------------------------------------------------------- *)

Next ==
    \/ \E tile \in cardDisplayElements : CardDisplayClick(tile)
    \/ \E i \in 1..Len(editDeckColumn) : DecreaseClick(i)
    \/ \E i \in 1..Len(editDeckColumn) : IncreaseClick(i)
    \/ RemoveHeroClick

Spec == Init /\ [][Next]_vars

(* ---------------------------------------------------------------------- *)
(* Deck statistics: the faction distribution sorted for the pie chart      *)
(* ---------------------------------------------------------------------- *)

\* Most members the JSON text of the distribution has.
MaxMembers == 3

\* Largest count of a faction.
MaxCount == 2

factionColors ==
    [faction \in {"axiom", "bravos", "lyra", "muna", "ordis", "yzmir"} |->
        CASE faction = "axiom"  -> "#7e4b36"
          [] faction = "bravos" -> "#ff1a1a"
          [] faction = "lyra"   -> "#d12358"
          [] faction = "muna"   -> "#4c7245"
          [] faction = "ordis"  -> "#00628b"
          [] faction = "yzmir"  -> "#483b66"]

\* Factions the distributions of the model are over.
Factions == {"axiom", "lyra", "neutral"}

\* A member "faction": count of the JSON text, an entry [faction, count].
Entry(faction, count) == << faction, count >>

\* JSON.parse of the members of an object, as Object.entries lists them: a
\* key is listed where it first appears, with the value of its last member.
RECURSIVE JSONParse(_)
JSONParse(members) ==
    IF members = << >> THEN << >>
    ELSE LET front == JSONParse(SubSeq(members, 1, Len(members) - 1))
             m == members[Len(members)]
         IN  IF \E i \in 1..Len(front) : front[i][1] = m[1]
             THEN [i \in 1..Len(front) |-> IF front[i][1] = m[1] THEN m ELSE front[i]]
             ELSE Append(front, m)

\* Variant: ascending comparator a[1] - b[1].
compare_ascending(a, b) == a[2] - b[2]

\* The comparator (a, b) => b[1] - a[1].
compare(a, b) == b[2] - a[2]

\* Array.prototype.sort, a stable sort: x goes before the first element
\* that the comparator puts after it.
InsertSorted(sorted, x) ==
    LET later == { i \in 1..Len(sorted) : compare(sorted[i], x) > 0 }
        at == IF later = {} THEN Len(sorted) + 1
              ELSE CHOOSE i \in later : \A j \in later : i <= j
    IN  SubSeq(sorted, 1, at - 1) \o << x >> \o SubSeq(sorted, at, Len(sorted))

RECURSIVE sort(_)
sort(entries) ==
    IF entries = << >> THEN << >>
    ELSE InsertSorted(sort(SubSeq(entries, 1, Len(entries) - 1)), entries[Len(entries)])

\* deckStats.map((dataPoint) => dataPoint[0])
mapLabels(entries) == [i \in 1..Len(entries) |-> entries[i][1]]

\* deckStats.map((dataPoint) => dataPoint[1])
mapData(entries) == [i \in 1..Len(entries) |-> entries[i][2]]

\* factionColors[faction], undefined for a faction that is no key.
ColorOf(faction) ==
    IF faction \in DOMAIN factionColors THEN factionColors[faction] ELSE "undefined"

\* Array.from(labels, (faction) => factionColors[faction])
mapColors(factions) == [i \in 1..Len(factions) |-> ColorOf(factions[i])]

RECURSIVE MemberLists(_)
MemberLists(n) ==
    IF n = 0 THEN { << >> }
    ELSE LET shorter == MemberLists(n - 1)
         IN  shorter \cup
             { Append(ms, Entry(f, c)) : ms \in { x \in shorter : Len(x) = n - 1 },
                                         f \in Factions, c \in 0..MaxCount }

\* The deck editor is not on the statistics page.
DeckEditorAbsent ==
    /\ editDeckColumn = << >>
    /\ heroElement = EmptyHero
    /\ removeHeroDisabled = TRUE
    /\ decklistChanges = EmptyObject
    /\ lastClick = [control |-> "load", target |-> "", row |-> 0]
    /\ selects = [r \in NormalRefs |-> 0]
    /\ onlySelects = [r \in NormalRefs |-> FALSE]
    /\ heroAtLoad = ""

StatsInit ==
    /\ DeckEditorAbsent
    /\ SearchIdle
    /\ factionDistribution \in MemberLists(MaxMembers)
    /\ deckStats = << >>
    /\ labels = << >>
    /\ data = << >>
    /\ deckPieChart = << >>
    /\ statsPc = "parse"

\* let deckStats = JSON.parse(...)
ParseStats ==
    /\ statsPc = "parse"
    /\ deckStats' = JSONParse(factionDistribution)
    /\ statsPc' = "sort"
    /\ UNCHANGED << factionDistribution, labels, data, deckPieChart, deckEditorVars, searchVars >>

\* deckStats = Object.entries(deckStats).sort(...)
SortStats ==
    /\ statsPc = "sort"
    /\ deckStats' = sort(deckStats)
    /\ statsPc' = "labels"
    /\ UNCHANGED << factionDistribution, labels, data, deckPieChart, deckEditorVars, searchVars >>

\* let labels = deckStats.map(...)
MapLabels ==
    /\ statsPc = "labels"
    /\ labels' = mapLabels(deckStats)
    /\ statsPc' = "data"
    /\ UNCHANGED << factionDistribution, deckStats, data, deckPieChart, deckEditorVars, searchVars >>

\* let data = deckStats.map(...)
MapData ==
    /\ statsPc = "data"
    /\ data' = mapData(deckStats)
    /\ statsPc' = "chart"
    /\ UNCHANGED << factionDistribution, deckStats, labels, deckPieChart, deckEditorVars, searchVars >>

\* new Chart(ctx, {...})
NewChart ==
    /\ statsPc = "chart"
    /\ deckPieChart' = [labels |-> labels, data |-> data,
                        backgroundColor |-> mapColors(labels)]
    /\ statsPc' = "done"
    /\ UNCHANGED << factionDistribution, deckStats, labels, data, deckEditorVars, searchVars >>

StatsNext ==
    \/ ParseStats
    \/ SortStats
    \/ MapLabels
    \/ MapData
    \/ NewChart

StatsSpec == StatsInit /\ [][StatsNext]_vars

(* ---------------------------------------------------------------------- *)
(* Card search and deck selector: navigation by GET parameters             *)
(* ---------------------------------------------------------------------- *)

\* A string is a sequence of characters; a run of characters that no
\* encoding touches (letters, digits) is kept as one element.
Str(word) == << word >>

\* application/x-www-form-urlencoded: the characters that are escaped, and
\* what they are written as.
Escaped ==
    [ch \in {" ", "+", "&", "=", ",", "%", "?"} |->
        CASE ch = " " -> "+"
          [] ch = "+" -> "%2B"
          [] ch = "&" -> "%26"
          [] ch = "=" -> "%3D"
          [] ch = "," -> "%2C"
          [] ch = "%" -> "%25"
          [] ch = "?" -> "%3F"]

EncodeChar(ch) == IF ch \in DOMAIN Escaped THEN Escaped[ch] ELSE ch

DecodeChar(ch) ==
    IF \E c \in DOMAIN Escaped : Escaped[c] = ch
    THEN CHOOSE c \in DOMAIN Escaped : Escaped[c] = ch
    ELSE ch

Encode(str) == [i \in 1..Len(str) |-> EncodeChar(str[i])]
Decode(str) == [i \in 1..Len(str) |-> DecodeChar(str[i])]

\* The pieces of str between the occurrences of the character sep.
RECURSIVE Split(_, _)
Split(str, sep) ==
    IF \E i \in 1..Len(str) : str[i] = sep
    THEN LET at == CHOOSE i \in 1..Len(str) :
                      str[i] = sep /\ \A j \in 1..(i - 1) : str[j] # sep
         IN  << SubSeq(str, 1, at - 1) >> \o Split(SubSeq(str, at + 1, Len(str)), sep)
    ELSE << str >>

\* One name=value piece of a query as a [name, value] pair.
ParsePair(piece) ==
    IF \E i \in 1..Len(piece) : piece[i] = "="
    THEN LET at == CHOOSE i \in 1..Len(piece) :
                      piece[i] = "=" /\ \A j \in 1..(i - 1) : piece[j] # "="
         IN  << Decode(SubSeq(piece, 1, at - 1)),
                Decode(SubSeq(piece, at + 1, Len(piece))) >>
    ELSE << Decode(piece), << >> >>

\* new URLSearchParams(search): a leading "?" is dropped, empty pieces are
\* skipped.
URLSearchParams(search) ==
    LET query == IF search # << >> /\ search[1] = "?" THEN Tail(search) ELSE search
        pieces == SelectSeq(Split(query, "&"), LAMBDA piece : piece # << >>)
    IN  [i \in 1..Len(pieces) |-> ParsePair(pieces[i])]

\* params.toString()
RECURSIVE toString(_)
toString(params) ==
    IF params = << >> THEN << >>
    ELSE LET front == toString(SubSeq(params, 1, Len(params) - 1))
             last == params[Len(params)]
         IN  (IF front = << >> THEN << >> ELSE front \o << "&" >>)
             \o Encode(last[1]) \o << "=" >> \o Encode(last[2])

\* params.get(name): the first value, null when there is none.
Null == << "null" >>
get(params, name) ==
    IF \E i \in 1..Len(params) : params[i][1] = name
    THEN params[CHOOSE i \in 1..Len(params) :
                    params[i][1] = name /\ \A j \in 1..(i - 1) : params[j][1] # name][2]
    ELSE Null

\* params.delete(name): every pair of the name is removed.
delete(params, name) == SelectSeq(params, LAMBDA pair : pair[1] # name)

\* params.append(name, value)
append(params, name, value) == Append(params, << name, value >>)

\* window.location.search after window.open(pathname + "?" + query, "_self").
SearchOf(query) == IF query = << >> THEN << >> ELSE << "?" >> \o query

\* values.join(",")
RECURSIVE join(_)
join(values) ==
    IF values = << >> THEN << >>
    ELSE IF Len(values) = 1 THEN values[1]
    ELSE join(SubSeq(values, 1, Len(values) - 1)) \o << "," >> \o values[Len(values)]

\* parseFilter: the values of the checked checkboxes, in the order of labels.
parseFilter(filterLabels, checked) ==
    LET on == SelectSeq(filterLabels, LAMBDA label : label \in checked)
    IN  [i \in 1..Len(on) |-> Str(on[i])]

FactionLabels == << "Axiom", "Bravos", "Lyra", "Muna", "Ordis", "Yzmir" >>
RarityLabels  == << "Common", "Rare", "Unique" >>
TypeLabels    == << "Character", "Hero", "Permanent", "Spell" >>

\* Value of the option of #filterOrdering at an index.
OrderingValue(selectedIndex) ==
    Str(<< "default", "label", "name", "rarity" >>[selectedIndex + 1])

\* The parameters searchCards builds from the filter inputs.
filterParams(checked, query, selectedIndex) ==
    LET factions == parseFilter(FactionLabels, checked)
        rarities == parseFilter(RarityLabels, checked)
        types    == parseFilter(TypeLabels, checked)
        p1 == IF Len(factions) > 0
              THEN append(<< >>, Str("faction"), join(factions)) ELSE << >>
        p2 == IF Len(rarities) > 0 THEN append(p1, Str("rarity"), join(rarities)) ELSE p1
        p3 == IF Len(types) > 0 THEN append(p2, Str("type"), join(types)) ELSE p2
        p4 == IF query # << >> THEN append(p3, Str("query"), query) ELSE p3
    IN  IF selectedIndex > 1
        THEN append(p4, Str("order"), OrderingValue(selectedIndex)) ELSE p4

\* The parameters searchCards navigates with.
searchCardsParams(search, checked, query, selectedIndex) ==
    LET params == filterParams(checked, query, selectedIndex)
        deckId == get(URLSearchParams(search), Str("deck"))
    IN  IF deckId # Null /\ deckId # << >>
        THEN append(params, Str("deck"), deckId) ELSE params

\* Variant: the deck parameter is appended without params.delete("deck").
deckSelectorParams_noDelete(search, value) ==
    append(URLSearchParams(search), Str("deck"), value)

\* The parameters the deck selector navigates with.
deckSelectorParams(search, value) ==
    append(delete(URLSearchParams(search), Str("deck")), Str("deck"), value)

\* Filter inputs the searches of the model are made with.
CheckedSets ==
    { {}, {"Axiom"}, {"Lyra", "Axiom"}, {"Rare", "Hero"}, {"Axiom", "Lyra", "Rare", "Hero"} }
Queries == { << >>, << "a", " ", "b" >>, << "x", "&", "deck", "=", "9" >> }
SelectedIndexes == {1, 2}

\* Values of the options of #deckSelector.
DeckValues == { << >>, << "1" >>, << "2" >> }

\* Query strings the page is first opened with.
OpenedWith ==
    { << >>,
      << "?", "deck", "=", "1" >>,
      << "?", "deck", "=", "1", "&", "deck", "=", "2" >>,
      << "?", "query", "=", "a", "%26", "b", "&", "deck", "=", "2", "&", "page", "=", "3" >>,
      << "?", "faction", "=", "Axiom", ",", "Lyra", "&", "&", "deck" >> }

SearchInit ==
    /\ DeckEditorAbsent
    /\ StatsAbsent
    /\ locationSearch \in OpenedWith
    /\ navigation = NoInputs

SearchCards(checked, query, selectedIndex) ==
    /\ locationSearch' =
          SearchOf(toString(searchCardsParams(locationSearch, checked, query, selectedIndex)))
    /\ navigation' = [kind |-> "searchCards", value |-> << >>, checked |-> checked,
                      query |-> query, selectedIndex |-> selectedIndex]
    /\ UNCHANGED << deckEditorVars, statsVars >>

DeckSelectorChange(value) ==
    /\ locationSearch' = SearchOf(toString(deckSelectorParams(locationSearch, value)))
    /\ navigation' = [NoInputs EXCEPT !.kind = "deckSelector", !.value = value]
    /\ UNCHANGED << deckEditorVars, statsVars >>

SearchNext ==
    \/ \E checked \in CheckedSets, query \in Queries, selectedIndex \in SelectedIndexes :
          SearchCards(checked, query, selectedIndex)
    \/ \E value \in DeckValues : DeckSelectorChange(value)

SearchSpec == SearchInit /\ [][SearchNext]_vars

(* ---------------------------------------------------------------------- *)
(* Properties                                                              *)
(* ---------------------------------------------------------------------- *)

\* Position of the row of a normal card in the deck column, 0 when none.
RowOf(ref) == getElementById(editDeckColumn, RowId(ref))

\* Quantity displayed by the row of a card that has one.
Displayed(ref) == Number(editDeckColumn[RowOf(ref)].quantity)

\* The step is the handling of a click on the tile of reference ref.
TileClicked(ref) ==
    /\ lastClick'.control = "card-display"
    /\ lastClick'.target = ref

\* C1: after a history of n select clicks on normal card R and nothing else
\* on R, begun with no row for R, R has no row when n = 0, and otherwise its
\* row displays n and decklistChanges[R] is the displayed quantity.
C1_SelectsGiveQuantity ==
    \A r \in NormalRefs :
        onlySelects[r] =>
            IF selects[r] = 0
            THEN RowOf(r) = 0
            ELSE /\ RowOf(r) # 0
                 /\ Displayed(r) = selects[r]
                 /\ HasKey(decklistChanges, r)
                 /\ decklistChanges[r] = Displayed(r)

C1_Witness ==
    \E r \in NormalRefs :
        /\ onlySelects[r]
        /\ selects[r] >= 2
        /\ lastClick.control = "card-display"
        /\ lastClick.target = r

\* C2: for every normal card R that has an entry in decklistChanges and a
\* row in the deck column, decklistChanges[R] equals the quantity row R
\* displays.
C2_RowsMatchChanges ==
    \A r \in NormalRefs :
        (RowOf(r) # 0 /\ HasKey(decklistChanges, r)) =>
            decklistChanges[r] = Displayed(r)

\* C3: a click on the decrease control of a row that displays 1 leaves no
\* row with that row's identifier in the deck column.
C3_DecreaseAtOneRemovesRow ==
    [][ ( /\ lastClick'.control = "remove-card-btn"
          /\ Number(editDeckColumn[lastClick'.row].quantity) = 1 )
        => getElementById(editDeckColumn', lastClick'.target) = 0 ]_vars

C3_Witness ==
    /\ lastClick.control = "remove-card-btn"
    /\ getElementById(editDeckColumn, lastClick.target) = 0

\* C4: a click on a hero tile while the hero slot is occupied changes
\* neither the hero name, nor the stored hero reference, nor the disabled
\* flag of the remove control, nor decklistChanges.
C4_SecondHeroIsNoOp ==
    [][ \A h \in HeroRefs :
          (TileClicked(h) /\ heroElement.value # "")
          => UNCHANGED << heroElement, removeHeroDisabled, decklistChanges >> ]_vars

C4_Witness ==
    /\ lastClick.control = "card-display"
    /\ lastClick.target \in HeroRefs
    /\ heroElement.value # ""
    /\ heroElement.cardReference # lastClick.target

\* C5: right after a remove-hero click the hero name is the empty string,
\* the stored hero reference is the empty string and the remove control is
\* disabled.
C5_RemoveHeroClearsSlot ==
    lastClick.control = "remove-hero" =>
        /\ heroElement.value = ""
        /\ heroElement.cardReference = ""
        /\ removeHeroDisabled

C5_Witness ==
    /\ lastClick.control = "remove-hero"
    /\ lastClick.target \in HeroRefs

\* C6: a remove-hero click with hero reference H deletes the key H of
\* decklistChanges when it was there, sets decklistChanges[H] = 0 when it
\* was not, and changes no other key.
C6_RemoveHeroTogglesKey ==
    [][ lastClick'.control = "remove-hero" =>
          LET H == heroElement.cardReference
          IN  /\ HasKey(decklistChanges, H) => ~HasKey(decklistChanges', H)
              /\ ~HasKey(decklistChanges, H) =>
                    (HasKey(decklistChanges', H) /\ decklistChanges'[H] = 0)
              /\ (DOMAIN decklistChanges') \ {H} = (DOMAIN decklistChanges) \ {H}
              /\ \A k \in (DOMAIN decklistChanges) \ {H} :
                    decklistChanges'[k] = decklistChanges[k] ]_vars

\* Both cases have happened: the loaded hero was removed (entry 0), another
\* hero was selected and removed (entry deleted), with a normal entry kept.
C6_Witness ==
    /\ lastClick.control = "remove-hero"
    /\ ~HasKey(decklistChanges, lastClick.target)
    /\ \E h \in HeroRefs : HasKey(decklistChanges, h) /\ decklistChanges[h] = 0
    /\ \E r \in NormalRefs : HasKey(decklistChanges, r)

\* C7: a click on the tile of a normal card R that has no row appends
\* exactly one row for R, shown, with quantity text "1", R's name and both
\* controls wired, and sets decklistChanges[R] = 1; and on every shown row,
\* cloned or rendered at load, increase adds 1 to the displayed quantity and
\* decrease subtracts 1 or removes the row at 1.
C7_NewRowAndItsControls ==
    [][ /\ \A r \in NormalRefs :
              (TileClicked(r) /\ RowOf(r) = 0) =>
                  /\ Len(editDeckColumn') = Len(editDeckColumn) + 1
                  /\ SubSeq(editDeckColumn', 1, Len(editDeckColumn)) = editDeckColumn
                  /\ LET new == editDeckColumn'[Len(editDeckColumn')]
                     IN  /\ new.id = RowId(r)
                         /\ new.quantity = << "1" >>
                         /\ new.name = TileOf(r).cardName
                         /\ ~new.hidden
                         /\ new.removeListener
                         /\ new.addListener
                  /\ HasKey(decklistChanges', r)
                  /\ decklistChanges'[r] = 1
        /\ \A i \in 1..Len(editDeckColumn) :
              (~editDeckColumn[i].hidden /\ Number(editDeckColumn[i].quantity) < MaxQty)
              => ENABLED IncreaseClick(i)
        /\ \A i \in 1..Len(editDeckColumn) :
              ~editDeckColumn[i].hidden => ENABLED DecreaseClick(i)
        /\ lastClick'.control = "add-card-btn" =>
              /\ Len(editDeckColumn') = Len(editDeckColumn)
              /\ Number(editDeckColumn'[lastClick'.row].quantity)
                    = Number(editDeckColumn[lastClick'.row].quantity) + 1
        /\ lastClick'.control = "remove-card-btn" =>
              IF Number(editDeckColumn[lastClick'.row].quantity) = 1
              THEN editDeckColumn' = RemoveAt(editDeckColumn, lastClick'.row)
              ELSE /\ Len(editDeckColumn') = Len(editDeckColumn)
                   /\ Number(editDeckColumn'[lastClick'.row].quantity)
                         = Number(editDeckColumn[lastClick'.row].quantity) - 1 ]_vars

\* The increase control of a cloned row was clicked and its row shows 2.
C7_Witness ==
    /\ lastClick.control = "add-card-btn"
    /\ lastClick.row \in 1..Len(editDeckColumn)
    /\ editDeckColumn[lastClick.row].cloned
    /\ editDeckColumn[lastClick.row].id = lastClick.target
    /\ editDeckColumn[lastClick.row].quantity = << "2" >>

\* C8: a click on the tile of hero H with the hero slot empty sets the hero
\* name and stored reference to those of H, decklistChanges[H] to 1 and
\* enables the remove control; a remove-hero click leaves the slot empty, so
\* that the next hero click takes effect again.
C8_HeroSlotTransitions ==
    [][ /\ \A h \in HeroRefs :
              (TileClicked(h) /\ heroElement.value = "") =>
                  /\ heroElement'.value = TileOf(h).cardName
                  /\ heroElement'.cardReference = h
                  /\ HasKey(decklistChanges', h)
                  /\ decklistChanges'[h] = 1
                  /\ ~removeHeroDisabled'
        /\ lastClick'.control = "remove-hero" =>
              /\ heroElement.value # ""
              /\ heroElement'.value = "" ]_vars

\* A hero was selected after the removal of the loaded one.
C8_Witness ==
    /\ lastClick.control = "card-display"
    /\ lastClick.target \in HeroRefs
    /\ heroElement.cardReference = lastClick.target
    /\ ~removeHeroDisabled
    /\ \E h \in HeroRefs \ {lastClick.target} :
          HasKey(decklistChanges, h) /\ decklistChanges[h] = 0

\* C9: a click on the tile of a normal card R that has a row increases the
\* quantity row R displays by exactly 1 and sets decklistChanges[R] to the
\* new displayed quantity.
C9_SelectExistingAddsOne ==
    [][ \A r \in NormalRefs :
          (TileClicked(r) /\ RowOf(r) # 0) =>
              LET after == getElementById(editDeckColumn', RowId(r))
              IN  /\ after # 0
                  /\ Number(editDeckColumn'[after].quantity) = Displayed(r) + 1
                  /\ HasKey(decklistChanges', r)
                  /\ decklistChanges'[r] = Number(editDeckColumn'[after].quantity) ]_vars

\* C10: every shown row of the deck column displays a quantity of at least 1.
C10_ShownRowsAtLeastOne ==
    \A i \in 1..Len(editDeckColumn) :
        ~editDeckColumn[i].hidden => Number(editDeckColumn[i].quantity) >= 1

\* A decrease click has just removed its row while another shown row stays.
C10_Witness ==
    /\ lastClick.control = "remove-card-btn"
    /\ \A i \in 1..Len(editDeckColumn) : editDeckColumn[i].id # lastClick.target
    /\ \E i \in 1..Len(editDeckColumn) :
          ~editDeckColumn[i].hidden /\ editDeckColumn[i].cloned

\* The step is the handling of a click on a row control of the row of ref.
RowControlClicked(ref) ==
    /\ lastClick'.control \in {"remove-card-btn", "add-card-btn"}
    /\ lastClick'.target = RowId(ref)

\* C11: when a decrease click removes the row of a card R that was added in
\* this page session, decklistChanges holds no positive quantity for R
\* afterwards: R is no key, or decklistChanges[R] = 0.
C11_RemovedRowLeavesNoPositiveEntry ==
    [][ \A r \in NormalRefs :
          ( /\ lastClick'.control = "remove-card-btn"
            /\ lastClick'.target = RowId(r)
            /\ editDeckColumn[lastClick'.row].cloned
            /\ getElementById(editDeckColumn', RowId(r)) = 0 )
          => (~HasKey(decklistChanges', r) \/ decklistChanges'[r] = 0) ]_vars

\* C12: no row of the deck column has the identifier of a hero tile, and the
\* reference stored in the hero slot has no row.
C12_HeroIsNeverARow ==
    /\ \A h \in HeroRefs : getElementById(editDeckColumn, RowId(h)) = 0
    /\ heroElement.cardReference # "" =>
          getElementById(editDeckColumn, RowId(heroElement.cardReference)) = 0

\* A hero tile was clicked and took the slot, beside shown deck rows.
C12_Witness ==
    /\ lastClick.control = "card-display"
    /\ lastClick.target \in HeroRefs
    /\ heroElement.cardReference = lastClick.target
    /\ \E i \in 1..Len(editDeckColumn) : ~editDeckColumn[i].hidden

\* C13: whenever a click on a tile makes a new row, the node that is cloned,
\* the last child of the deck column, is the hidden template row.
C13_NewRowsCloneTheTemplate ==
    [][ \A r \in NormalRefs :
          (TileClicked(r) /\ RowOf(r) = 0)
          => lastElementChild(editDeckColumn) = TemplateRow ]_vars

\* C16: when the page was loaded with hero H0, every state with an empty
\* hero slot has decklistChanges[H0] = 0.
C16_EmptySlotRecordsRemoval ==
    (heroAtLoad # "" /\ heroElement.value = "") =>
        (HasKey(decklistChanges, heroAtLoad) /\ decklistChanges[heroAtLoad] = 0)

\* C17: the remove control is enabled exactly when the hero slot is
\* occupied, the hero name is empty exactly when the stored reference is,
\* and the empty string is no key of decklistChanges.
C17_RemoveEnabledIffOccupied ==
    /\ ~removeHeroDisabled <=> heroElement.value # ""
    /\ heroElement.value # "" <=> heroElement.cardReference # ""
    /\ ~HasKey(decklistChanges, "")
    /\ lastClick.control = "remove-hero" => lastClick.target # ""

\* The slot was emptied by a remove-hero click after a hero had been selected.
C17_Witness ==
    /\ lastClick.control = "remove-hero"
    /\ removeHeroDisabled
    /\ heroElement.cardReference = ""
    /\ lastClick.target # heroAtLoad

\* C18: no two rows of the deck column have the same identifier.
C18_OneRowPerReference ==
    \A i, j \in 1..Len(editDeckColumn) :
        editDeckColumn[i].id = editDeckColumn[j].id => i = j

\* A card whose row was removed by decrease clicks has a row again, after
\* the row of the other card.
C18_Witness ==
    \E r \in NormalRefs :
        /\ RowOf(r) # 0
        /\ editDeckColumn[RowOf(r)].cloned
        /\ HasKey(decklistChanges, r)
        /\ Displayed(r) < decklistChanges[r]
        /\ \E q \in NormalRefs \ {r} : RowOf(q) # 0 /\ RowOf(q) < RowOf(r)

\* The row of card q and its entry in decklistChanges are as before the step.
SameRowAndEntry(q) ==
    LET before == RowOf(q)
        after  == getElementById(editDeckColumn', RowId(q))
    IN  /\ (before = 0) <=> (after = 0)
        /\ before # 0 => editDeckColumn'[after] = editDeckColumn[before]
        /\ HasKey(decklistChanges', q) <=> HasKey(decklistChanges, q)
        /\ HasKey(decklistChanges, q) => decklistChanges'[q] = decklistChanges[q]

\* C19: a select, increase or decrease click on normal card R leaves the row
\* of every other card, the decklistChanges entry of every other reference
\* and the hero slot as they were; a hero select or remove-hero click leaves
\* the deck column as it was.
C19_ClicksTouchOnlyTheirCard ==
    [][ /\ \A r \in NormalRefs :
              (TileClicked(r) \/ RowControlClicked(r)) =>
                  /\ \A q \in NormalRefs \ {r} : SameRowAndEntry(q)
                  /\ \A k \in ((DOMAIN decklistChanges) \cup (DOMAIN decklistChanges')) \ {r} :
                        /\ HasKey(decklistChanges, k) /\ HasKey(decklistChanges', k)
                        /\ decklistChanges'[k] = decklistChanges[k]
                  /\ UNCHANGED << heroElement, removeHeroDisabled >>
        /\ ( \/ lastClick'.control = "remove-hero"
             \/ \E h \in HeroRefs : TileClicked(h) )
           => UNCHANGED editDeckColumn ]_vars

\* The increase control of the second of two shown rows was clicked, with a
\* hero in the slot and entries for both cards and the hero.
C19_Witness ==
    /\ lastClick.control = "add-card-btn"
    /\ lastClick.row = 2
    /\ heroElement.cardReference # ""
    /\ HasKey(decklistChanges, heroElement.cardReference)
    /\ \A r \in NormalRefs : RowOf(r) # 0 /\ HasKey(decklistChanges, r)

\* The count of a faction in the parsed distribution.
CountOf(faction) ==
    LET object == JSONParse(factionDistribution)
    IN  object[CHOOSE i \in 1..Len(object) : object[i][1] = faction][2]

\* C14: the chart is given the distribution sorted by descending count: data
\* is non-increasing, labels[i] is the faction whose count is data[i], and
\* labels lists every faction of the object exactly once.
C14_ChartInputSortedDescending ==
    statsPc = "done" =>
        LET chartLabels == deckPieChart.labels
            chartData == deckPieChart.data
            object == JSONParse(factionDistribution)
        IN  /\ Len(chartLabels) = Len(object)
            /\ Len(chartData) = Len(object)
            /\ \A i, j \in 1..Len(chartData) : i < j => chartData[i] >= chartData[j]
            /\ \A i, j \in 1..Len(chartLabels) :
                  chartLabels[i] = chartLabels[j] => i = j
            /\ { chartLabels[i] : i \in 1..Len(chartLabels) }
                  = { object[i][1] : i \in 1..Len(object) }
            /\ \A i \in 1..Len(chartLabels) : chartData[i] = CountOf(chartLabels[i])

\* Three factions given in ascending order of count were charted.
C14_Witness ==
    /\ statsPc = "done"
    /\ Len(factionDistribution) = 3
    /\ Len(deckPieChart.data) = 3
    /\ factionDistribution[1][2] < factionDistribution[2][2]
    /\ factionDistribution[2][2] < factionDistribution[3][2]

\* The pairs of a parameter list whose name is not "deck".
OtherThanDeck(params) == SelectSeq(params, LAMBDA pair : pair[1] # Str("deck"))

\* The values of the "deck" pairs of a parameter list.
DeckPairs(params) == SelectSeq(params, LAMBDA pair : pair[1] = Str("deck"))

\* The value a parameter list is expected to give a name: expected when it
\* is not empty, and no pair of the name otherwise.
Carries(params, name, expected) ==
    LET pairs == SelectSeq(params, LAMBDA pair : pair[1] = Str(name))
    IN  IF expected = << >> THEN pairs = << >>
        ELSE pairs = << << Str(name), expected >> >>

\* C15: a change of the deck selector navigates to a URL with exactly one
\* "deck" parameter, of the selected value, and every other parameter of the
\* current URL kept in place; searchCards navigates to a URL that has only
\* the parameters of the filter inputs and, when the current URL has a
\* non-empty "deck", that one deck parameter; so after a navigation the URL
\* never has more than one "deck" parameter.
C15_DeckParameterStaysSingle ==
    [][ LET now == URLSearchParams(locationSearch)
            next == URLSearchParams(locationSearch')
            in == navigation'
        IN  /\ Len(DeckPairs(next)) <= 1
            /\ in.kind = "deckSelector" =>
                  /\ DeckPairs(next) = << << Str("deck"), in.value >> >>
                  /\ OtherThanDeck(next) = OtherThanDeck(now)
            /\ in.kind = "searchCards" =>
                  /\ \A i \in 1..Len(next) :
                        next[i][1] \in { Str(name) : name \in
                            {"faction", "rarity", "type", "query", "order", "deck"} }
                  /\ Carries(next, "query", in.query)
                  /\ Carries(next, "faction",
                             join(parseFilter(FactionLabels, in.checked)))
                  /\ Carries(next, "rarity", join(parseFilter(RarityLabels, in.checked)))
                  /\ Carries(next, "type", join(parseFilter(TypeLabels, in.checked)))
                  /\ Carries(next, "order",
                             IF in.selectedIndex > 1
                             THEN OrderingValue(in.selectedIndex) ELSE << >>)
                  /\ Carries(next, "deck",
                             IF DeckPairs(now) = << >> THEN << >>
                             ELSE DeckPairs(now)[1][2]) ]_vars

\* The deck selector was changed on a URL that had a query with "&" in it,
\* a faction list and a deck; all are still there, with the new deck.
C15_Witness ==
    LET params == URLSearchParams(locationSearch)
    IN  /\ navigation.kind = "deckSelector"
        /\ navigation.value = << "2" >>
        /\ get(params, Str("deck")) = << "2" >>
        /\ get(params, Str("query")) = << "x", "&", "deck", "=", "9" >>
        /\ get(params, Str("faction")) = << "Axiom", ",", "Lyra" >>
        /\ Len(DeckPairs(params)) = 1

====
